---- MODULE Spec2Model ----
(***************************************************************************)
(* Model of the RMS-norm operator of DynamicDispatch                       *)
(* (src/example/transformers/ext/DynamicDispatch/src/ops/mladfrmsnorm/     *)
(* mladfrmsnorm.cpp): construction of operator instances, allocation of    *)
(* the staging buffers, the execute pipeline and the process-wide statics  *)
(* (instance counter, once flags).  Threads call the operations of the     *)
(* class; an operation that touches shared state is split at the points    *)
(* where another thread can interleave.                                    *)
(*                                                                         *)
(* The device context (xrt_context), the instruction registry              *)
(* (instruction_registry) and the element-count helpers of utils are code  *)
(* of the repository whose sources are not part of the files modelled      *)
(* here; they are modelled from their documented contract and are marked   *)
(* as such where they are defined.                                         *)
(***************************************************************************)
EXTENDS Integers, Sequences, FiniteSets, TLC

\* ------------------------------------------------------------------ bounds
NumThreads == 2
NumInst == 2
MaxCalls == 4

Thread == 1..NumThreads
Inst == 1..NumInst

\* ------------------------------------------------------- program constants
\* template class rms_norm<uint16_t, uint16_t, uint16_t>: sizeof(LhsT)
SizeofLhsT == 2

\* getXCLBinName(): the one hardware image every instance targets
XCLBIN_FNAME == "LLAMA2_MLADF_2x4x4_GEMMBFP16_SILU_MUL_MHA_RMS_ROPE_XCLBIN_PATH"

NoCtx == 0
NoBO == [id |-> 0, size |-> 0, src |-> 0, n |-> 0]
NoBlob == [key |-> "", id |-> 0]

\* ----------------------------------------------------------------- helpers
Digit(d) ==
    CASE d = 0 -> "0" [] d = 1 -> "1" [] d = 2 -> "2" [] d = 3 -> "3"
      [] d = 4 -> "4" [] d = 5 -> "5" [] d = 6 -> "6" [] d = 7 -> "7"
      [] d = 8 -> "8" [] OTHER -> "9"

RECURSIVE to_string(_)
\* std::to_string(int): decimal digits, a leading '-' for a negative value
to_string(n) ==
    IF n < 0 THEN "-" \o to_string(0 - n)
    ELSE IF n < 10 THEN Digit(n)
    ELSE to_string(n \div 10) \o Digit(n % 10)

\* get_instr_key without the separator between the two dimensions
get_instr_key_NoSeparator(prefix, m, k) ==
    "mladfrmsnorm_" \o prefix \o "_" \o to_string(m) \o to_string(k)

\* rms_norm::get_instr_key
get_instr_key(prefix, m, k) ==
    "mladfrmsnorm_" \o prefix \o "_" \o to_string(m) \o "_" \o to_string(k)

\* error value of extract_MK (the runtime_error thrown for rank # 2)
RankError == <<-1, -1>>

\* extract_MK with the rank test written as "fewer than two dimensions"
extract_MK_AtLeast2(tensor) ==
    IF Len(tensor.shape) < 2 THEN RankError
    ELSE <<tensor.shape[1], tensor.shape[2]>>

\* extract_MK: rank must be exactly 2; (M, K) = (shape[0], shape[1])
extract_MK(tensor) ==
    IF Len(tensor.shape) # 2 THEN RankError
    ELSE <<tensor.shape[1], tensor.shape[2]>>

\* rms_norm::rms_norm, lines 136-141: default_shapes_["rmsnorm_a16"]
DefaultShapes ==
    <<<<2048, 4096>>, <<1024, 4096>>, <<512, 4096>>, <<256, 4096>>, <<128, 4096>>>>

\* txnbin_operand_header.at(operand_dtype_): only "bfloat16" has an entry
txnbin_operand_header(dtype) == IF dtype = "bfloat16" THEN "a16" ELSE "?"

RECURSIVE AnyEqualFrom_SkipLast(_, _, _)
\* the loop of isSupportedShape stopping one entry early
AnyEqualFrom_SkipLast(shapes, j, pair) ==
    IF j >= Len(shapes) THEN FALSE
    ELSE IF shapes[j] = pair THEN TRUE
    ELSE AnyEqualFrom_SkipLast(shapes, j + 1, pair)

RECURSIVE AnyEqualFrom(_, _, _)
\* the for loop of isSupportedShape: first entry equal to the operand's pair
AnyEqualFrom(shapes, j, pair) ==
    IF j > Len(shapes) THEN FALSE
    ELSE IF shapes[j] = pair THEN TRUE
    ELSE AnyEqualFrom(shapes, j + 1, pair)

\* isSupportedShape comparing the column count only
isSupportedShape_ColsOnly(shapes, operand) ==
    IF extract_MK(operand) = RankError THEN "error"
    ELSE IF \E j \in 1..Len(shapes) : shapes[j][2] = extract_MK(operand)[2] THEN "true"
    ELSE "false"

\* rms_norm::isSupportedShape: "error" stands for the exception of extract_MK
isSupportedShape(shapes, operand) ==
    IF extract_MK(operand) = RankError THEN "error"
    ELSE IF AnyEqualFrom(shapes, 1, extract_MK(operand)) THEN "true"
    ELSE "false"

RECURSIVE ProductFrom(_, _, _)
ProductFrom(nums, j, skips) ==
    IF j > Len(nums) THEN 1
    ELSE (IF (j - 1) \in skips THEN 1 ELSE nums[j]) * ProductFrom(nums, j + 1, skips)

\* utils::running_product_with_skips: product of the entries whose (0-based)
\* index is not skipped
running_product_with_skips(nums, skips) == ProductFrom(nums, 1, skips)

RECURSIVE MaxCountFrom(_, _, _)
MaxCountFrom(shapes, j, skips) ==
    IF j > Len(shapes) THEN 0
    ELSE LET here == running_product_with_skips(shapes[j], skips)
             rest == MaxCountFrom(shapes, j + 1, skips)
         IN IF here > rest THEN here ELSE rest

\* utils::max_element_count_with_skips: the largest running product over the
\* supported shapes
max_element_count_with_skips(shapes, skips) == MaxCountFrom(shapes, 1, skips)

\* the artifact store of a complete installation: a precompiled instruction
\* stream for the key of every supported shape
ArtifactStore ==
    {get_instr_key("rmsnorm_a16", DefaultShapes[j][1], DefaultShapes[j][2]) :
        j \in 1..Len(DefaultShapes)}

\* the installations looked at: the complete one, and one whose stream for the
\* largest shape is absent
Installations ==
    {ArtifactStore, ArtifactStore \ {get_instr_key("rmsnorm_a16", 2048, 4096)}}

\* ------------------------------------------------------------------- state
VARIABLES
    rms_norm_count,   \* static uint64_t rms_norm_count
    instr_reg_flag_,  \* static std::once_flag: "idle", "running" or "done"
    logger_flag_,     \* static std::once_flag: "idle" or "done"
    ctx_map,          \* xrt_context registry: image path -> handle (NoCtx: none)
    acquisitions,     \* number of device acquisitions performed so far
    loads,            \* every artifact load performed: [inst, key, id]
    log,              \* lines handed to RYZENAI_LOG_INFO, in order
    obj,              \* the operator instances
    thr,              \* per thread: the call it is in and what the call did
    ncalls,           \* calls started so far
    artifacts,        \* the keys whose instruction stream the artifact store holds
    probe             \* a call of a side-effect-free function: arguments, result

vars == <<rms_norm_count, instr_reg_flag_, logger_flag_, ctx_map, acquisitions,
          loads, log, obj, thr, ncalls, artifacts, probe>>

statics == <<rms_norm_count, instr_reg_flag_, logger_flag_, ctx_map, acquisitions>>

EmptyRegistry == [hw_ctx |-> NoCtx, registered |-> {}, loading |-> {}, cache |-> {}]

\* an instance slot before its constructor ran; "failed" is history, not a
\* member: the kind of the last execute call on the instance that was refused
\* for its shape or for its instruction key
NoObject ==
    [state |-> "none", load_xrt |-> FALSE,
     operand_dtype_ |-> "", operand_dtype_size_ |-> 0,
     default_shapes_ |-> <<>>, txn_fname_prefix_ |-> "",
     rms_norm_id_ |-> 0, xrt_ctx_ |-> NoCtx, instr_reg_ |-> EmptyRegistry,
     a_bo_ |-> NoBO, b_bo_ |-> NoBO, c_bo_ |-> NoBO, nalloc |-> 0,
     a_copy_time_ |-> 0, a_sync_time_ |-> 0, b_copy_time_ |-> 0,
     b_sync_time_ |-> 0, c_copy_time_ |-> 0, c_sync_time_ |-> 0,
     run_aie_time_ |-> 0, num_run_aie_ |-> 0,
     operand_size_in_bytes_ |-> 0, wts_size_in_bytes_ |-> 0,
     failed |-> "none"]

\* a thread that is in no call and has made none
IdleThread ==
    [pc |-> "idle", op |-> "none", inst |-> 1,
     input |-> <<>>, output |-> <<>>, cnt |-> 0, instr_bo |-> NoBlob,
     hist |-> <<>>, err |-> "none"]

\* no side-effect-free call is being looked at
NoProbe == [fn |-> "none", operand |-> [data |-> 0, shape |-> <<>>], result |-> "none"]

Quiet ==
    /\ rms_norm_count = 0
    /\ instr_reg_flag_ = "idle"
    /\ logger_flag_ = "idle"
    /\ ctx_map = [p \in {XCLBIN_FNAME} |-> NoCtx]
    /\ acquisitions = 0
    /\ loads = {}
    /\ log = <<>>
    /\ obj = [i \in Inst |-> NoObject]
    /\ thr = [t \in Thread |-> IdleThread]
    /\ ncalls = 0

Init ==
    /\ Quiet
    /\ probe = NoProbe
    /\ artifacts \in Installations

\* ------------------------------------------------- device context (xrt_context)
\* xrt_context::get_instance(path): the handle registered for the path; the
\* first caller for a path acquires the device and registers the handle
get_instance_handle(path) ==
    IF ctx_map[path] = NoCtx THEN acquisitions + 1 ELSE ctx_map[path]

get_instance(path) ==
    /\ ctx_map' = [ctx_map EXCEPT ![path] = get_instance_handle(path)]
    /\ acquisitions' = IF ctx_map[path] = NoCtx THEN acquisitions + 1 ELSE acquisitions

\* ------------------------------------- instruction registry (instruction_registry)
\* instruction_registry::setup_hw_ctx
setup_hw_ctx(reg, ctx) == [reg EXCEPT !.hw_ctx = ctx]

\* instruction_registry::add_instructions: the keys become candidates; none is
\* loaded yet
add_instructions(reg, keys) == [reg EXCEPT !.registered = @ \cup keys]

\* the cache entry of a key, NoBlob when the key has not been loaded
CacheEntry(reg, key) ==
    IF \E b \in reg.cache : b.key = key
    THEN CHOOSE b \in reg.cache : b.key = key
    ELSE NoBlob

\* ------------------------------------------------------------- construction
SetThr(t, rec) == thr' = [thr EXCEPT ![t] = rec]

\* Threads and instance slots are interchangeable names: a thread makes its
\* first call only after the thread before it has made one, and a slot is
\* constructed only after the slot before it.
MayCall(t) ==
    /\ thr[t].pc = "idle"
    /\ ncalls < MaxCalls
    /\ IF t = 1 THEN TRUE ELSE thr[t - 1].op # "none"

FreeSlot(i) ==
    /\ obj[i].state = "none"
    /\ IF i = 1 THEN TRUE ELSE obj[i - 1].state # "none"

Begin(t, op, i) ==
    [IdleThread EXCEPT !.op = op, !.inst = i]

\* the dtype test of lines 128-131 placed after the increment of line 143
CtorBadDtype_CountsFirst(t, i, dtype, load_xrt) ==
    /\ MayCall(t)
    /\ FreeSlot(i)
    /\ dtype # "bfloat16"
    /\ ncalls' = ncalls + 1
    /\ rms_norm_count' = rms_norm_count + 1
    /\ SetThr(t, [Begin(t, "ctor", i) EXCEPT !.err = "Construction"])
    /\ UNCHANGED <<probe, artifacts, instr_reg_flag_, logger_flag_, ctx_map, acquisitions,
                   loads, log, obj>>

\* rms_norm::rms_norm, lines 128-131: any dtype but "bfloat16" is refused
CtorBadDtype(t, i, dtype, load_xrt) ==
    /\ MayCall(t)
    /\ FreeSlot(i)
    /\ dtype # "bfloat16"
    /\ ncalls' = ncalls + 1
    /\ SetThr(t, [Begin(t, "ctor", i) EXCEPT !.err = "Construction"])
    /\ UNCHANGED <<probe, artifacts, statics, loads, log, obj>>

\* rms_norm::rms_norm, lines 132-148: the fields set from the dtype, and the
\* read of the static in rms_norm_id_ = rms_norm_count++ (line 143)
CtorInit(t, i, dtype, load_xrt) ==
    /\ MayCall(t)
    /\ FreeSlot(i)
    /\ dtype = "bfloat16"
    /\ ncalls' = ncalls + 1
    /\ SetThr(t, [Begin(t, "ctor", i) EXCEPT !.cnt = rms_norm_count, !.pc = "c_count"])
    /\ obj' = [obj EXCEPT ![i] =
                 [NoObject EXCEPT !.state = "constructing",
                                  !.load_xrt = load_xrt,
                                  !.operand_dtype_ = dtype,
                                  !.operand_dtype_size_ = SizeofLhsT,
                                  !.default_shapes_ = ("rmsnorm_a16" :> DefaultShapes),
                                  !.txn_fname_prefix_ =
                                      "rmsnorm_" \o txnbin_operand_header(dtype)]]
    /\ UNCHANGED <<probe, artifacts, statics, loads, log>>

\* line 143: the write back of the static and the assignment of the id
CtorWriteCount(t) ==
    /\ thr[t].pc = "c_count"
    /\ rms_norm_count' = thr[t].cnt + 1
    /\ obj' = [obj EXCEPT ![thr[t].inst].rms_norm_id_ = thr[t].cnt]
    /\ SetThr(t, [thr[t] EXCEPT !.pc = IF obj[thr[t].inst].load_xrt THEN "c_xrt"
                                       ELSE "c_finish"])
    /\ UNCHANGED <<probe, artifacts, instr_reg_flag_, logger_flag_, ctx_map, acquisitions, loads, log, ncalls>>

\* line 151 with the registry bypassed: a context of the caller's own
CtorGetInstanceFresh(t) ==
    /\ thr[t].pc = "c_xrt"
    /\ acquisitions' = acquisitions + 1
    /\ obj' = [obj EXCEPT ![thr[t].inst].xrt_ctx_ = acquisitions + 1]
    /\ SetThr(t, [thr[t] EXCEPT !.pc = "c_once"])
    /\ UNCHANGED <<probe, artifacts, rms_norm_count, instr_reg_flag_, logger_flag_, ctx_map, loads, log, ncalls>>

\* line 151: xrt_ctx_ = xrt_context::get_instance(XCLBIN_FNAME)
CtorGetInstance(t) ==
    /\ thr[t].pc = "c_xrt"
    /\ get_instance(XCLBIN_FNAME)
    /\ obj' = [obj EXCEPT ![thr[t].inst].xrt_ctx_ = get_instance_handle(XCLBIN_FNAME)]
    /\ SetThr(t, [thr[t] EXCEPT !.pc = "c_once"])
    /\ UNCHANGED <<probe, artifacts, rms_norm_count, instr_reg_flag_, logger_flag_, loads, log, ncalls>>

\* line 152, std::call_once(instr_reg_flag_, ...): the first caller runs the
\* callable; a caller that arrives while it runs waits (no step is enabled)
CtorCallOnceEnter(t) ==
    /\ thr[t].pc = "c_once"
    /\ instr_reg_flag_ = "idle"
    /\ instr_reg_flag_' = "running"
    /\ SetThr(t, [thr[t] EXCEPT !.pc = "c_setup"])
    /\ UNCHANGED <<probe, artifacts, rms_norm_count, logger_flag_, ctx_map, acquisitions, loads, log, obj, ncalls>>

\* line 152 with a caller that does not wait for a setup in progress
CtorCallOnceSkip_WhileRunning(t) ==
    /\ thr[t].pc = "c_once"
    /\ instr_reg_flag_ # "idle"
    /\ SetThr(t, [thr[t] EXCEPT !.pc = "c_finish"])
    /\ UNCHANGED <<probe, artifacts, statics, loads, log, obj, ncalls>>

\* line 152: the flag is set already, the callable is not run
CtorCallOnceSkip(t) ==
    /\ thr[t].pc = "c_once"
    /\ instr_reg_flag_ = "done"
    /\ SetThr(t, [thr[t] EXCEPT !.pc = "c_finish"])
    /\ UNCHANGED <<probe, artifacts, statics, loads, log, obj, ncalls>>

\* rms_norm::setup_instr_registry on the instance o: one key per supported shape
setup_instr_registry(o) ==
    [o EXCEPT !.instr_reg_ =
        add_instructions(
            setup_hw_ctx(o.instr_reg_, o.xrt_ctx_),
            {get_instr_key(o.txn_fname_prefix_,
                           o.default_shapes_[o.txn_fname_prefix_][j][1],
                           o.default_shapes_[o.txn_fname_prefix_][j][2]) :
                j \in 1..Len(o.default_shapes_[o.txn_fname_prefix_])})]

\* line 152: the callable [this]() { setup_instr_registry(); } of the caller
\* that won the once flag; the flag is set when it returns
CtorSetup(t) ==
    /\ thr[t].pc = "c_setup"
    /\ obj' = [obj EXCEPT ![thr[t].inst] = setup_instr_registry(obj[thr[t].inst])]
    /\ instr_reg_flag_' = "done"
    /\ SetThr(t, [thr[t] EXCEPT !.pc = "c_finish"])
    /\ UNCHANGED <<probe, artifacts, rms_norm_count, logger_flag_, ctx_map, acquisitions, loads, log, ncalls>>

\* lines 188-195 (and 155-162): the timing record is zeroed
ResetTimers(o) ==
    [o EXCEPT !.a_copy_time_ = 0, !.a_sync_time_ = 0, !.b_copy_time_ = 0,
              !.b_sync_time_ = 0, !.c_copy_time_ = 0, !.c_sync_time_ = 0,
              !.run_aie_time_ = 0, !.num_run_aie_ = 0]

\* lines 155-178 with the header logged without the once flag
CtorFinish_HeaderEach(t) ==
    /\ thr[t].pc = "c_finish"
    /\ obj' = [obj EXCEPT ![thr[t].inst] = [ResetTimers(@) EXCEPT !.state = "ready"]]
    /\ logger_flag_' = "done"
    /\ log' = Append(log, [line |-> "header", id |-> 0])
    /\ SetThr(t, [thr[t] EXCEPT !.pc = "idle", !.err = "ok"])
    /\ UNCHANGED <<probe, artifacts, rms_norm_count, instr_reg_flag_, ctx_map, acquisitions, loads, ncalls>>

\* lines 155-178: the timing record is zeroed, the header is logged under
\* logger_flag_, the constructor returns
CtorFinish(t) ==
    /\ thr[t].pc = "c_finish"
    /\ obj' = [obj EXCEPT ![thr[t].inst] = [ResetTimers(@) EXCEPT !.state = "ready"]]
    /\ logger_flag_' = "done"
    /\ log' = IF logger_flag_ = "idle" THEN Append(log, [line |-> "header", id |-> 0])
              ELSE log
    /\ SetThr(t, [thr[t] EXCEPT !.pc = "idle", !.err = "ok"])
    /\ UNCHANGED <<probe, artifacts, rms_norm_count, instr_reg_flag_, ctx_map, acquisitions, loads, ncalls>>

\* ------------------------------------------------------ staging buffers
\* xrt::bo(device, size, flags, group): a fresh region of the given size
NewBO(id, size) == [id |-> id, size |-> size, src |-> 0, n |-> 0]

\* initialize_const_params sizing the weights region without skipping axis 0
initialize_const_params_NoSkip(o) ==
    LET shape_vector == o.default_shapes_["rmsnorm_a16"]
        operand_size_in_bytes ==
            max_element_count_with_skips(shape_vector, {}) * o.operand_dtype_size_
    IN [o EXCEPT !.a_bo_ = NewBO(3 * o.nalloc + 1, operand_size_in_bytes),
                 !.b_bo_ = NewBO(3 * o.nalloc + 2, operand_size_in_bytes),
                 !.c_bo_ = NewBO(3 * o.nalloc + 3, operand_size_in_bytes),
                 !.nalloc = o.nalloc + 1]

\* rms_norm::initialize_const_params on the instance o: the three regions are
\* created from the largest supported shape and assigned to a_bo_, b_bo_, c_bo_
initialize_const_params(o) ==
    LET shape_vector == o.default_shapes_["rmsnorm_a16"]
        operand_size_in_bytes ==
            max_element_count_with_skips(shape_vector, {}) * o.operand_dtype_size_
        wts_size_in_bytes ==
            max_element_count_with_skips(shape_vector, {0}) * o.operand_dtype_size_
    IN [o EXCEPT !.a_bo_ = NewBO(3 * o.nalloc + 1, operand_size_in_bytes),
                 !.b_bo_ = NewBO(3 * o.nalloc + 2, wts_size_in_bytes),
                 !.c_bo_ = NewBO(3 * o.nalloc + 3, operand_size_in_bytes),
                 !.nalloc = o.nalloc + 1]

\* initialize_const_params called by thread t on instance i
InitConstParams(t, i) ==
    /\ MayCall(t)
    /\ obj[i].state = "ready"
    /\ obj[i].xrt_ctx_ # NoCtx
    /\ ncalls' = ncalls + 1
    /\ obj' = [obj EXCEPT ![i] = initialize_const_params(obj[i])]
    /\ SetThr(t, [Begin(t, "init", i) EXCEPT !.pc = "idle", !.err = "ok"])
    /\ UNCHANGED <<probe, artifacts, statics, loads, log>>

\* initialize_const_params on an instance built with load_xrt = false:
\* xrt_ctx_ is a null shared_ptr, xrt_ctx_->get_device() cannot yield a device
InitConstParamsNoCtx(t, i) ==
    /\ MayCall(t)
    /\ obj[i].state = "ready"
    /\ obj[i].xrt_ctx_ = NoCtx
    /\ ncalls' = ncalls + 1
    /\ SetThr(t, [Begin(t, "init", i) EXCEPT !.err = "NullContext"])
    /\ UNCHANGED <<probe, artifacts, statics, loads, log, obj>>

\* ------------------------------------------------------------------ execute
Tensor(data, shape) == [data |-> data, shape |-> shape]

\* the argument lists a caller passes to execute: input 0, input 1, output 0;
\* the data of an input names its caller, the output tensor is unwritten (0)
Args(t, in0, in1, out0) ==
    [input |-> <<Tensor(t, in0), Tensor(t, in1)>>, output |-> <<Tensor(0, out0)>>]

ExecArgs(t) ==
    { Args(t, <<128, 4096>>, <<4096>>, <<128, 4096>>),
      Args(t, <<100, 4096>>, <<4096>>, <<100, 4096>>),
      Args(t, <<1, 128, 4096>>, <<4096>>, <<1, 128, 4096>>),
      Args(t, <<128, 4096>>, <<2048>>, <<128, 4096>>),
      Args(t, <<128, 4096>>, <<8192>>, <<128, 4096>>),
      Args(t, <<2048, 4096>>, <<4096>>, <<128, 4096>>),
      [input |-> <<Tensor(t, <<128, 4096>>)>>, output |-> <<Tensor(0, <<128, 4096>>)>>],
      [input |-> <<Tensor(t, <<128, 4096>>), Tensor(t, <<4096>>)>>, output |-> <<>>] }

\* one stage of a call: the bytes it moved, the size and the id of the region used
Event(ev, n, cap, bo) == [ev |-> ev, n |-> n, cap |-> cap, bo |-> bo]

\* the thread's record with one more stage done
Did(t, ev, n, cap, bo, pc) ==
    [thr[t] EXCEPT !.hist = Append(@, Event(ev, n, cap, bo)), !.pc = pc]

\* the call of thread t ends with an exception
Throw(t, err) == [thr[t] EXCEPT !.pc = "idle", !.err = err]

\* lines 185-186: input.at(0), input.at(1) throw std::out_of_range
ExecArgError(t, i, a) ==
    /\ MayCall(t)
    /\ obj[i].state = "ready"
    /\ Len(a.input) < 2
    /\ ncalls' = ncalls + 1
    /\ SetThr(t, [Begin(t, "execute", i) EXCEPT !.input = a.input, !.output = a.output,
                                                !.err = "OutOfRange"])
    /\ UNCHANGED <<probe, artifacts, statics, loads, log, obj>>

\* lines 185-201: the shape of input 0 is refused (rank # 2 or not in the table)
ExecShapeError(t, i, a) ==
    /\ MayCall(t)
    /\ obj[i].state = "ready"
    /\ Len(a.input) >= 2
    /\ isSupportedShape(obj[i].default_shapes_[obj[i].txn_fname_prefix_], a.input[1]) # "true"
    /\ ncalls' = ncalls + 1
    /\ obj' = [obj EXCEPT ![i] = [ResetTimers(obj[i]) EXCEPT !.failed = "Shape"]]
    /\ SetThr(t, [Begin(t, "execute", i) EXCEPT !.input = a.input, !.output = a.output,
                                                !.err = "Shape"])
    /\ UNCHANGED <<probe, artifacts, statics, loads, log>>

\* lines 185-201: the shape of input 0 is accepted
ExecValidated(t, i, a) ==
    /\ MayCall(t)
    /\ obj[i].state = "ready"
    /\ Len(a.input) >= 2
    /\ isSupportedShape(obj[i].default_shapes_[obj[i].txn_fname_prefix_], a.input[1]) = "true"
    /\ ncalls' = ncalls + 1
    /\ obj' = [obj EXCEPT ![i] = ResetTimers(obj[i])]
    /\ SetThr(t, [Begin(t, "execute", i) EXCEPT !.input = a.input, !.output = a.output,
                     !.hist = <<Event("validate", 0, 0, 0)>>, !.pc = "x_copyA"])
    /\ UNCHANGED <<probe, artifacts, statics, loads, log>>


Self(t) == obj[thr[t].inst]

SetSelf(t, rec) == obj' = [obj EXCEPT ![thr[t].inst] = rec]

\* byte count of a tensor's actual shape
ShapeBytes(o, tensor) ==
    running_product_with_skips(tensor.shape, {}) * o.operand_dtype_size_

\* lines 203-207: operand_size_in_bytes_ is set, then a_bo_.map() on a
\* default-constructed xrt::bo finds no region to map
ExecCopyANull(t) ==
    /\ thr[t].pc = "x_copyA"
    /\ Self(t).a_bo_.id = 0
    /\ SetSelf(t, [Self(t) EXCEPT !.operand_size_in_bytes_ =
                                      ShapeBytes(Self(t), thr[t].input[1])])
    /\ SetThr(t, Throw(t, "NullBO"))
    /\ UNCHANGED <<probe, artifacts, statics, loads, log, ncalls>>

\* lines 203-217 with operand_size_in_bytes_ kept from an earlier call
ExecStageA_StaleSize(t) ==
    /\ thr[t].pc = "x_copyA"
    /\ Self(t).a_bo_.id # 0
    /\ LET bytes == ShapeBytes(Self(t), thr[t].input[1])
           bo == Self(t).a_bo_
       IN /\ SetSelf(t, [Self(t) EXCEPT !.operand_size_in_bytes_ =
                                            IF @ = 0 THEN bytes ELSE @,
                                        !.a_bo_.src = thr[t].input[1].data,
                                        !.a_bo_.n = bytes,
                                        !.a_copy_time_ = 1, !.a_sync_time_ = 1])
          /\ SetThr(t, [thr[t] EXCEPT
                           !.hist = @ \o <<Event("copyA", bytes, bo.size, bo.id),
                                           Event("syncA", 0, bo.size, bo.id)>>,
                           !.pc = "x_copyB"])
    /\ UNCHANGED <<probe, artifacts, statics, loads, log, ncalls>>

\* lines 203-217 with the synchronization issued before the copy
ExecStageA_SyncFirst(t) ==
    /\ thr[t].pc = "x_copyA"
    /\ Self(t).a_bo_.id # 0
    /\ LET bytes == ShapeBytes(Self(t), thr[t].input[1])
           bo == Self(t).a_bo_
       IN /\ SetSelf(t, [Self(t) EXCEPT !.operand_size_in_bytes_ = bytes,
                                        !.a_bo_.src = thr[t].input[1].data,
                                        !.a_bo_.n = bytes,
                                        !.a_copy_time_ = 1, !.a_sync_time_ = 1])
          /\ SetThr(t, [thr[t] EXCEPT
                           !.hist = @ \o <<Event("syncA", 0, bo.size, bo.id),
                                           Event("copyA", bytes, bo.size, bo.id)>>,
                           !.pc = "x_copyB"])
    /\ UNCHANGED <<probe, artifacts, statics, loads, log, ncalls>>

\* lines 203-217: operand_size_in_bytes_ from the actual shape of input 0,
\* memcpy of that many bytes into a_bo_, a_bo_.sync(TO_DEVICE), the two
\* elapsed times
ExecStageA(t) ==
    /\ thr[t].pc = "x_copyA"
    /\ Self(t).a_bo_.id # 0
    /\ LET bytes == ShapeBytes(Self(t), thr[t].input[1])
           bo == Self(t).a_bo_
       IN /\ SetSelf(t, [Self(t) EXCEPT !.operand_size_in_bytes_ = bytes,
                                        !.a_bo_.src = thr[t].input[1].data,
                                        !.a_bo_.n = bytes,
                                        !.a_copy_time_ = 1, !.a_sync_time_ = 1])
          /\ SetThr(t, [thr[t] EXCEPT
                           !.hist = @ \o <<Event("copyA", bytes, bo.size, bo.id),
                                           Event("syncA", 0, bo.size, bo.id)>>,
                           !.pc = "x_copyB"])
    /\ UNCHANGED <<probe, artifacts, statics, loads, log, ncalls>>

\* lines 203-213: the copy into a_bo_ is done, a_bo_.sync(TO_DEVICE) throws;
\* the elapsed times of lines 216-217 are not recorded
ExecStageAFail(t) ==
    /\ thr[t].pc = "x_copyA"
    /\ Self(t).a_bo_.id # 0
    /\ LET bytes == ShapeBytes(Self(t), thr[t].input[1])
           bo == Self(t).a_bo_
       IN /\ SetSelf(t, [Self(t) EXCEPT !.operand_size_in_bytes_ = bytes,
                                        !.a_bo_.src = thr[t].input[1].data,
                                        !.a_bo_.n = bytes])
          /\ SetThr(t, [Throw(t, "Hardware") EXCEPT
                           !.hist = Append(@, Event("copyA", bytes, bo.size, bo.id))])
    /\ UNCHANGED <<probe, artifacts, statics, loads, log, ncalls>>

\* lines 220-233: wts_size_in_bytes_ from the actual shape of input 1, memcpy
\* of that many bytes into b_bo_, b_bo_.sync(TO_DEVICE), the two elapsed times
ExecStageB(t) ==
    /\ thr[t].pc = "x_copyB"
    /\ LET bytes == ShapeBytes(Self(t), thr[t].input[2])
           bo == Self(t).b_bo_
       IN /\ SetSelf(t, [Self(t) EXCEPT !.wts_size_in_bytes_ = bytes,
                                        !.b_bo_.src = thr[t].input[2].data,
                                        !.b_bo_.n = bytes,
                                        !.b_copy_time_ = 1, !.b_sync_time_ = 1])
          /\ SetThr(t, [thr[t] EXCEPT
                           !.hist = @ \o <<Event("copyB", bytes, bo.size, bo.id),
                                           Event("syncB", 0, bo.size, bo.id)>>,
                           !.pc = "x_resolve"])
    /\ UNCHANGED <<probe, artifacts, statics, loads, log, ncalls>>

\* lines 220-229: the copy into b_bo_ is done, b_bo_.sync(TO_DEVICE) throws
ExecStageBFail(t) ==
    /\ thr[t].pc = "x_copyB"
    /\ LET bytes == ShapeBytes(Self(t), thr[t].input[2])
           bo == Self(t).b_bo_
       IN /\ SetSelf(t, [Self(t) EXCEPT !.wts_size_in_bytes_ = bytes,
                                        !.b_bo_.src = thr[t].input[2].data,
                                        !.b_bo_.n = bytes])
          /\ SetThr(t, [Throw(t, "Hardware") EXCEPT
                           !.hist = Append(@, Event("copyB", bytes, bo.size, bo.id))])
    /\ UNCHANGED <<probe, artifacts, statics, loads, log, ncalls>>

\* lines 235-236: the key of the call, from the actual shape of input 0
InstrKey(t) ==
    get_instr_key(Self(t).txn_fname_prefix_, thr[t].input[1].shape[1],
                  thr[t].input[1].shape[2])

\* instruction_registry::get_instr_bo(key): what a request for the key meets
RegistryLookup(reg, key) ==
    IF key \notin reg.registered \/ key \notin artifacts THEN "missing"
    ELSE IF CacheEntry(reg, key) # NoBlob THEN "cached"
    ELSE IF key \in reg.loading THEN "loading"
    ELSE "load"

\* line 237 with the staging buffers released when the lookup fails
ExecResolveMissing_Clears(t) ==
    /\ thr[t].pc = "x_resolve"
    /\ RegistryLookup(Self(t).instr_reg_, InstrKey(t)) = "missing"
    /\ SetSelf(t, [Self(t) EXCEPT !.failed = "Lookup",
                                  !.a_bo_ = NewBO(@.id, @.size),
                                  !.b_bo_ = NewBO(@.id, @.size)])
    /\ SetThr(t, Throw(t, "Lookup"))
    /\ UNCHANGED <<probe, artifacts, statics, loads, log, ncalls>>

\* line 237: the key is not registered or has no artifact: lookup error
ExecResolveMissing(t) ==
    /\ thr[t].pc = "x_resolve"
    /\ RegistryLookup(Self(t).instr_reg_, InstrKey(t)) = "missing"
    /\ SetSelf(t, [Self(t) EXCEPT !.failed = "Lookup"])
    /\ SetThr(t, Throw(t, "Lookup"))
    /\ UNCHANGED <<probe, artifacts, statics, loads, log, ncalls>>

\* line 237 reading the artifact again although the key is cached
ExecResolveCachedReload(t) ==
    /\ thr[t].pc = "x_resolve"
    /\ RegistryLookup(Self(t).instr_reg_, InstrKey(t)) = "cached"
    /\ loads' = loads \cup {[inst |-> thr[t].inst, key |-> InstrKey(t),
                             id |-> Cardinality(loads) + 1]}
    /\ SetThr(t, [Did(t, "resolve", 0, 0, 0, "x_launch") EXCEPT
                     !.instr_bo = [key |-> InstrKey(t), id |-> Cardinality(loads) + 1]])
    /\ UNCHANGED <<probe, artifacts, statics, log, obj, ncalls>>

\* line 237: the key is cached, the cached entry is returned
ExecResolveCached(t) ==
    /\ thr[t].pc = "x_resolve"
    /\ RegistryLookup(Self(t).instr_reg_, InstrKey(t)) = "cached"
    /\ SetThr(t, [Did(t, "resolve", 0, 0, 0, "x_launch") EXCEPT
                     !.instr_bo = CacheEntry(Self(t).instr_reg_, InstrKey(t))])
    /\ UNCHANGED <<probe, artifacts, statics, loads, log, obj, ncalls>>

\* line 237: first request for the key: this caller takes the load; a caller
\* that meets a load in progress waits (no step is enabled)
ExecResolveLoadBegin(t) ==
    /\ thr[t].pc = "x_resolve"
    /\ RegistryLookup(Self(t).instr_reg_, InstrKey(t)) = "load"
    /\ SetSelf(t, [Self(t) EXCEPT !.instr_reg_.loading = @ \cup {InstrKey(t)}])
    /\ SetThr(t, [thr[t] EXCEPT !.pc = "x_load"])
    /\ UNCHANGED <<probe, artifacts, statics, loads, log, ncalls>>

\* the blob a load of the key yields: the artifact of the key in a new region
LoadedBlob(key) == [key |-> key, id |-> Cardinality(loads) + 1]

\* line 237: the load ends: the artifact is read into a device buffer and
\* recorded in the cache under the key
ExecResolveLoadEnd(t) ==
    /\ thr[t].pc = "x_load"
    /\ SetSelf(t, [Self(t) EXCEPT !.instr_reg_.loading = @ \ {InstrKey(t)},
                                  !.instr_reg_.cache = @ \cup {LoadedBlob(InstrKey(t))}])
    /\ loads' = loads \cup {[inst |-> thr[t].inst, key |-> InstrKey(t),
                             id |-> Cardinality(loads) + 1]}
    /\ SetThr(t, [Did(t, "resolve", 0, 0, 0, "x_launch") EXCEPT
                     !.instr_bo = LoadedBlob(InstrKey(t))])
    /\ UNCHANGED <<probe, artifacts, statics, log, ncalls>>

\* lines 239-248: the kernel is started on the blob and the three regions
ExecLaunch(t) ==
    /\ thr[t].pc = "x_launch"
    /\ SetThr(t, Did(t, "launch", 0, 0, Self(t).c_bo_.id, "x_wait"))
    /\ UNCHANGED <<probe, artifacts, statics, loads, log, obj, ncalls>>

\* lines 245-248: the call of the kernel object throws, no run was started
ExecLaunchFail(t) ==
    /\ thr[t].pc = "x_launch"
    /\ SetThr(t, Throw(t, "Hardware"))
    /\ UNCHANGED <<probe, artifacts, statics, loads, log, obj, ncalls>>

\* lines 249-252: run.wait2() returns; the kernel has written the result of
\* the staged operands into c_bo_
ExecWait(t) ==
    /\ thr[t].pc = "x_wait"
    /\ SetSelf(t, [Self(t) EXCEPT !.run_aie_time_ = @ + 1,
                                  !.num_run_aie_ = @ + 1,
                                  !.c_bo_.src = Self(t).a_bo_.src,
                                  !.c_bo_.n = Self(t).a_bo_.n])
    /\ SetThr(t, Did(t, "wait", 0, 0, Self(t).c_bo_.id, "x_fetch"))
    /\ UNCHANGED <<probe, artifacts, statics, loads, log, ncalls>>

\* line 249 with the data line written when the run reports a failure
ExecWaitFail_Logs(t) ==
    /\ thr[t].pc = "x_wait"
    /\ SetThr(t, Throw(t, "Hardware"))
    /\ log' = Append(log, [line |-> "data", id |-> Self(t).rms_norm_id_])
    /\ UNCHANGED <<probe, artifacts, statics, loads, obj, ncalls>>

\* line 249 with the run started again when it reports a failure
ExecWaitFail_Retry(t) ==
    /\ thr[t].pc = "x_wait"
    /\ SetThr(t, [thr[t] EXCEPT !.pc = "x_launch"])
    /\ UNCHANGED <<probe, artifacts, statics, loads, log, obj, ncalls>>

\* line 249: the device layer reports a failure of the run
ExecWaitFail(t) ==
    /\ thr[t].pc = "x_wait"
    /\ SetThr(t, Throw(t, "Hardware"))
    /\ UNCHANGED <<probe, artifacts, statics, loads, log, obj, ncalls>>

\* line 256: c_bo_.sync(FROM_DEVICE) throws
ExecFetchSyncFail(t) ==
    /\ thr[t].pc = "x_fetch"
    /\ SetThr(t, Throw(t, "Hardware"))
    /\ UNCHANGED <<probe, artifacts, statics, loads, log, obj, ncalls>>

\* lines 255-261: c_bo_.sync(FROM_DEVICE), then output.at(0) throws
\* std::out_of_range
ExecFetchNoOutput(t) ==
    /\ thr[t].pc = "x_fetch"
    /\ Len(thr[t].output) < 1
    /\ SetSelf(t, [Self(t) EXCEPT !.c_sync_time_ = @ + 1])
    /\ SetThr(t, [Throw(t, "OutOfRange") EXCEPT
                     !.hist = Append(@, Event("syncC", 0, Self(t).c_bo_.size,
                                              Self(t).c_bo_.id))])
    /\ UNCHANGED <<probe, artifacts, statics, loads, log, ncalls>>

\* lines 255-279: c_bo_.sync(FROM_DEVICE), memcpy of operand_size_in_bytes_
\* bytes from c_bo_ into output 0, the data line of the call, return
ExecFetch(t) ==
    /\ thr[t].pc = "x_fetch"
    /\ Len(thr[t].output) >= 1
    /\ LET bo == Self(t).c_bo_
       IN /\ SetSelf(t, [Self(t) EXCEPT !.c_sync_time_ = @ + 1, !.c_copy_time_ = 1])
          /\ SetThr(t, [thr[t] EXCEPT
                           !.hist = @ \o <<Event("syncC", 0, bo.size, bo.id),
                                           Event("copyC", Self(t).operand_size_in_bytes_,
                                                 ShapeBytes(Self(t), thr[t].output[1]),
                                                 bo.id),
                                           Event("log", 0, 0, 0)>>,
                           !.output[1].data = bo.src,
                           !.pc = "idle", !.err = "ok"])
    /\ log' = Append(log, [line |-> "data", id |-> Self(t).rms_norm_id_])
    /\ UNCHANGED <<probe, artifacts, statics, loads, ncalls>>

\* ------------------------------------------------------------ specification
Dtypes == {"bfloat16", "float32"}

\* one step of thread t
Step(t) ==
    \/ \E i \in Inst, d \in Dtypes, l \in BOOLEAN :
          \/ CtorBadDtype(t, i, d, l)
          \/ CtorInit(t, i, d, l)
    \/ CtorWriteCount(t)
    \/ CtorGetInstance(t)
    \/ CtorCallOnceEnter(t)
    \/ CtorCallOnceSkip(t)
    \/ CtorSetup(t)
    \/ CtorFinish(t)
    \/ \E i \in Inst :
          \/ InitConstParams(t, i)
          \/ InitConstParamsNoCtx(t, i)
    \/ \E i \in Inst, a \in ExecArgs(t) :
          \/ ExecArgError(t, i, a)
          \/ ExecShapeError(t, i, a)
          \/ ExecValidated(t, i, a)
    \/ ExecCopyANull(t)
    \/ ExecStageA(t)
    \/ ExecStageAFail(t)
    \/ ExecStageB(t)
    \/ ExecStageBFail(t)
    \/ ExecResolveMissing(t)
    \/ ExecResolveCached(t)
    \/ ExecResolveLoadBegin(t)
    \/ ExecResolveLoadEnd(t)
    \/ ExecLaunch(t)
    \/ ExecLaunchFail(t)
    \/ ExecWait(t)
    \/ ExecWaitFail(t)
    \/ ExecFetchSyncFail(t)
    \/ ExecFetchNoOutput(t)
    \/ ExecFetch(t)

Next == \E t \in Thread : Step(t)

Spec == Init /\ [][Next]_vars

\* ------------------------------------------- one caller, one call at a time
NextSeq == Step(1)

SpecSeq == Init /\ [][NextSeq]_vars

\* ------------------------------------------------ the shape validator alone
MaxRank == 3

\* dimensions around every entry of the table
ProbeDims == {127, 128, 129, 256, 512, 1024, 2048, 4096, 4097}

RECURSIVE ShapesOfRank(_)
ShapesOfRank(r) ==
    IF r = 0 THEN {<<>>}
    ELSE {Append(sh, d) : sh \in ShapesOfRank(r - 1), d \in ProbeDims}

ProbeShapes == UNION {ShapesOfRank(r) : r \in 0..MaxRank}

\* isSupportedShape(operand) called on a constructed instance
ProbeIsSupportedShape(i) ==
    /\ probe.fn = "isSupportedShape"
    /\ probe.result = "pending"
    /\ obj[i].state = "ready"
    /\ probe' = [probe EXCEPT !.result =
                    isSupportedShape(obj[i].default_shapes_[obj[i].txn_fname_prefix_],
                                     probe.operand)]
    /\ UNCHANGED <<artifacts, statics, loads, log, obj, thr, ncalls>>

InitShape ==
    /\ Quiet
    /\ artifacts = ArtifactStore
    /\ probe \in {[fn |-> "isSupportedShape", operand |-> [data |-> 0, shape |-> sh],
                    result |-> "pending"] : sh \in ProbeShapes}

\* one caller constructs an instance, then validates the operand on it
NextShape ==
    \/ \E l \in BOOLEAN : CtorInit(1, 1, "bfloat16", l)
    \/ CtorWriteCount(1)
    \/ CtorGetInstance(1)
    \/ CtorCallOnceEnter(1)
    \/ CtorSetup(1)
    \/ CtorFinish(1)
    \/ ProbeIsSupportedShape(1)

SpecShape == InitShape /\ [][NextShape]_vars

\* ----------------------------------------------------- get_buffer_reqs alone
\* template class rms_norm<uint16_t, uint16_t, uint16_t>: sizeof(WtsT), sizeof(OutT)
SizeofWtsT == 2
SizeofOutT == 2

\* one entry of the returned list: {arg type, xrt_arg_idx, onnx_arg_idx, offset, size}
OpArgMap(type, xrt_arg_idx, onnx_arg_idx, offset, size) ==
    [arg_type |-> type, xrt_arg_idx |-> xrt_arg_idx, onnx_arg_idx |-> onnx_arg_idx,
     offset |-> offset, size |-> size]

\* what a call of get_buffer_reqs yields: an exception or the list
Thrown(err) == [err |-> err, arg_map |-> <<>>]

\* get_buffer_reqs with input 1 sized like input 0
get_buffer_reqs_WtsAsOperand(input, output) ==
    IF Len(input) < 1 THEN Thrown("OutOfRange")
    ELSE IF extract_MK(input[1]) = RankError THEN Thrown("Rank")
    ELSE IF Len(input) < 2 THEN Thrown("OutOfRange")
    ELSE IF Len(input[2].shape) < 1 THEN Thrown("OutOfRange")
    ELSE IF Len(output) < 1 THEN Thrown("OutOfRange")
    ELSE IF extract_MK(output[1]) = RankError THEN Thrown("Rank")
    ELSE IF extract_MK(input[1]) # extract_MK(output[1]) THEN Thrown("Shape")
    ELSE IF extract_MK(output[1])[2] # input[2].shape[1] THEN Thrown("Shape")
    ELSE LET num_elem_operand == running_product_with_skips(extract_MK(input[1]), {})
         IN [err |-> "none",
             arg_map |-> <<OpArgMap("INPUT", 0, 0, 0, num_elem_operand * SizeofLhsT),
                           OpArgMap("INPUT", 1, 1, 0, num_elem_operand * SizeofWtsT),
                           OpArgMap("OUTPUT", 2, 2, 0, num_elem_operand * SizeofOutT)>>]

\* get_buffer_reqs without the comparison of input 1 with the column count
get_buffer_reqs_NoWtsCheck(input, output) ==
    IF Len(input) < 1 THEN Thrown("OutOfRange")
    ELSE IF extract_MK(input[1]) = RankError THEN Thrown("Rank")
    ELSE IF Len(input) < 2 THEN Thrown("OutOfRange")
    ELSE IF Len(input[2].shape) < 1 THEN Thrown("OutOfRange")
    ELSE IF Len(output) < 1 THEN Thrown("OutOfRange")
    ELSE IF extract_MK(output[1]) = RankError THEN Thrown("Rank")
    ELSE IF extract_MK(input[1]) # extract_MK(output[1]) THEN Thrown("Shape")
    ELSE LET num_elem_operand == running_product_with_skips(extract_MK(input[1]), {})
             num_elem_wts == input[2].shape[1]
         IN [err |-> "none",
             arg_map |-> <<OpArgMap("INPUT", 0, 0, 0, num_elem_operand * SizeofLhsT),
                           OpArgMap("INPUT", 1, 1, 0, num_elem_wts * SizeofWtsT),
                           OpArgMap("OUTPUT", 2, 2, 0, num_elem_operand * SizeofOutT)>>]

\* rms_norm::get_buffer_reqs: the shapes are read in the order input 0,
\* input 1, output 0; a failing at() or extract_MK or a mismatch throws
get_buffer_reqs(input, output) ==
    IF Len(input) < 1 THEN Thrown("OutOfRange")
    ELSE IF extract_MK(input[1]) = RankError THEN Thrown("Rank")
    ELSE IF Len(input) < 2 THEN Thrown("OutOfRange")
    ELSE IF Len(input[2].shape) < 1 THEN Thrown("OutOfRange")
    ELSE IF Len(output) < 1 THEN Thrown("OutOfRange")
    ELSE IF extract_MK(output[1]) = RankError THEN Thrown("Rank")
    ELSE IF extract_MK(input[1]) # extract_MK(output[1]) THEN Thrown("Shape")
    ELSE IF extract_MK(output[1])[2] # input[2].shape[1] THEN Thrown("Shape")
    ELSE LET num_elem_operand == running_product_with_skips(extract_MK(input[1]), {})
             num_elem_wts == input[2].shape[1]
         IN [err |-> "none",
             arg_map |-> <<OpArgMap("INPUT", 0, 0, 0, num_elem_operand * SizeofLhsT),
                           OpArgMap("INPUT", 1, 1, 0, num_elem_wts * SizeofWtsT),
                           OpArgMap("OUTPUT", 2, 2, 0, num_elem_operand * SizeofOutT)>>]

\* dimensions of the descriptors looked at
ReqDims == {128, 4096}

RECURSIVE ShapesOver(_, _)
ShapesOver(dims, r) ==
    IF r = 0 THEN {<<>>}
    ELSE {Append(sh, d) : sh \in ShapesOver(dims, r - 1), d \in dims}

ReqShapes == UNION {ShapesOver(ReqDims, r) : r \in 0..MaxRank}

\* descriptors carry shapes only: the data pointer of every tensor is null
ReqProbes ==
    {[fn |-> "get_buffer_reqs",
      input |-> <<Tensor(0, sh0), Tensor(0, sh1)>>,
      output |-> <<Tensor(0, sho)>>,
      done |-> FALSE,
      result |-> Thrown("none")] : sh0 \in ReqShapes, sh1 \in ReqShapes, sho \in ReqShapes}

\* get_buffer_reqs(input, output, attr) called on a constructed instance
ProbeGetBufferReqs(i) ==
    /\ probe.fn = "get_buffer_reqs"
    /\ ~probe.done
    /\ obj[i].state = "ready"
    /\ probe' = [probe EXCEPT !.done = TRUE,
                              !.result = get_buffer_reqs(probe.input, probe.output)]
    /\ UNCHANGED <<artifacts, statics, loads, log, obj, thr, ncalls>>

InitReqs ==
    /\ Quiet
    /\ artifacts = ArtifactStore
    /\ probe \in ReqProbes

\* one caller constructs an instance, then asks it for the buffer requirements
NextReqs ==
    \/ \E l \in BOOLEAN : CtorInit(1, 1, "bfloat16", l)
    \/ CtorWriteCount(1)
    \/ CtorGetInstance(1)
    \/ CtorCallOnceEnter(1)
    \/ CtorSetup(1)
    \/ CtorFinish(1)
    \/ ProbeGetBufferReqs(1)

SpecReqs == InitReqs /\ [][NextReqs]_vars

\* ------------------------------------------------------- get_instr_key alone
\* dimensions of the shapes looked at: the supported ones and small ones whose
\* decimal digits run into each other
KeyDims == {1, 8, 12, 28, 128, 2048, 4096}

KeyProbes ==
    {[fn |-> "get_instr_key", a |-> <<m1, k1>>, b |-> <<m2, k2>>, done |-> FALSE,
      key_a |-> "", key_b |-> ""] : m1 \in KeyDims, k1 \in KeyDims,
                                   m2 \in KeyDims, k2 \in KeyDims}

\* lines 235-236 for two input shapes a and b on a constructed instance:
\* get_instr_key(txn_fname_prefix_, shape.at(0), shape.at(1))
ProbeGetInstrKey(i) ==
    /\ probe.fn = "get_instr_key"
    /\ ~probe.done
    /\ obj[i].state = "ready"
    /\ probe' = [probe EXCEPT
                    !.done = TRUE,
                    !.key_a = get_instr_key(obj[i].txn_fname_prefix_, probe.a[1], probe.a[2]),
                    !.key_b = get_instr_key(obj[i].txn_fname_prefix_, probe.b[1], probe.b[2])]
    /\ UNCHANGED <<artifacts, statics, loads, log, obj, thr, ncalls>>

InitKey ==
    /\ Quiet
    /\ artifacts = ArtifactStore
    /\ probe \in KeyProbes

\* one caller constructs an instance, then computes the keys of two shapes
NextKey ==
    \/ \E l \in BOOLEAN : CtorInit(1, 1, "bfloat16", l)
    \/ CtorWriteCount(1)
    \/ CtorGetInstance(1)
    \/ CtorCallOnceEnter(1)
    \/ CtorSetup(1)
    \/ CtorFinish(1)
    \/ ProbeGetInstrKey(1)

SpecKey == InitKey /\ [][NextKey]_vars


\* ================================================================== claims
\* the supported-shape table of the variant "rmsnorm_a16", as the claims state it
SupportedSet ==
    {<<2048, 4096>>, <<1024, 4096>>, <<512, 4096>>, <<256, 4096>>, <<128, 4096>>}

\* the instruction keys of the supported shapes
SupportedKeys ==
    {"mladfrmsnorm_rmsnorm_a16_2048_4096", "mladfrmsnorm_rmsnorm_a16_1024_4096",
     "mladfrmsnorm_rmsnorm_a16_512_4096", "mladfrmsnorm_rmsnorm_a16_256_4096",
     "mladfrmsnorm_rmsnorm_a16_128_4096"}

\* thread t is in, or has last made, an execute call with both inputs given
InExecute(t) == thr[t].op = "execute" /\ Len(thr[t].input) >= 2

\* the events of the call of thread t that are of one of the given kinds
EventsOf(t, kinds) == {k \in 1..Len(thr[t].hist) : thr[t].hist[k].ev \in kinds}

DeviceEvents ==
    {"copyA", "syncA", "copyB", "syncB", "resolve", "launch", "wait", "syncC", "copyC"}

\* C1: an execute call whose primary input has a rank-2 shape outside the
\* supported set has failed with a Shape error, and the call staged nothing,
\* synchronized nothing, looked up no instruction and launched no kernel.
C1_UnsupportedShapeFailsFirst ==
    \A t \in Thread :
        (/\ InExecute(t)
         /\ Len(thr[t].input[1].shape) = 2
         /\ <<thr[t].input[1].shape[1], thr[t].input[1].shape[2]>> \notin SupportedSet)
        => /\ thr[t].pc = "idle"
           /\ thr[t].err = "Shape"
           /\ EventsOf(t, DeviceEvents) = {}
           /\ thr[t].instr_bo = NoBlob

\* an unsupported shape was refused on an instance whose buffers are allocated
C1_Witness ==
    \E t \in Thread :
        /\ InExecute(t)
        /\ thr[t].input[1].shape = <<100, 4096>>
        /\ thr[t].err = "Shape"
        /\ obj[thr[t].inst].a_bo_.id # 0

\* C2: for a rank-2 operand isSupportedShape answers true exactly when the
\* (rows, cols) pair is one of the five entries of the table, false otherwise.
C2_SupportedIffInTable ==
    (/\ probe.fn = "isSupportedShape"
     /\ probe.result # "pending"
     /\ Len(probe.operand.shape) = 2)
    => /\ probe.result \in {"true", "false"}
       /\ (probe.result = "true") <=>
              (<<probe.operand.shape[1], probe.operand.shape[2]>> \in SupportedSet)

\* the smallest entry of the table was accepted
C2_Witness ==
    /\ probe.fn = "isSupportedShape"
    /\ probe.operand.shape = <<128, 4096>>
    /\ probe.result = "true"

\* C3: shape validation of a tensor whose rank is not 2 ends in an error; it
\* answers neither true nor false.
C3_RankNot2IsError ==
    (/\ probe.fn = "isSupportedShape"
     /\ probe.result # "pending"
     /\ Len(probe.operand.shape) # 2)
    => probe.result = "error"

\* a rank-3 tensor whose first two dimensions are a supported pair was refused
C3_Witness ==
    /\ probe.fn = "isSupportedShape"
    /\ probe.operand.shape = <<128, 4096, 128>>
    /\ probe.result = "error"

\* C4: however many instances are constructed against the hardware image and
\* however their constructors interleave, the device is acquired at most once,
\* exactly once as soon as one constructor has passed get_instance, and every
\* instance that holds a context holds the one registered for the image.
C4_OneAcquisitionOneHandle ==
    /\ acquisitions <= 1
    /\ \A i \in Inst :
          /\ obj[i].xrt_ctx_ # NoCtx =>
                (acquisitions = 1 /\ obj[i].xrt_ctx_ = ctx_map[XCLBIN_FNAME])
          /\ (obj[i].state = "ready" /\ obj[i].load_xrt) => obj[i].xrt_ctx_ # NoCtx

\* two instances have been constructed with load_xrt = true
C4_Witness ==
    \E i, j \in Inst :
        /\ i # j
        /\ obj[i].state = "ready" /\ obj[i].load_xrt
        /\ obj[j].state = "ready" /\ obj[j].load_xrt

\* the loads of a key performed by the registry of instance i
LoadsOf(i, key) == {l \in loads : l.inst = i /\ l.key = key}

\* C5: the registry of an instance loads the artifact of a key at most once,
\* and every request that returned a blob returned the cached entry of its
\* key: the same blob for the first, a concurrent and any later request.
C5_LoadedOnceSameBlob ==
    /\ \A i \in Inst : \A l \in loads : Cardinality(LoadsOf(i, l.key)) <= 1
    /\ \A t \in Thread :
          thr[t].instr_bo # NoBlob =>
              /\ thr[t].instr_bo \in obj[thr[t].inst].instr_reg_.cache
              /\ \A u \in Thread :
                    (/\ thr[u].inst = thr[t].inst
                     /\ thr[u].instr_bo.key = thr[t].instr_bo.key)
                    => thr[u].instr_bo = thr[t].instr_bo

\* two threads requested the same key on the same instance and hold its blob
C5_Witness ==
    \E t, u \in Thread :
        /\ t # u
        /\ thr[t].instr_bo # NoBlob
        /\ thr[u].inst = thr[t].inst
        /\ thr[u].instr_bo = thr[t].instr_bo
        /\ Cardinality(LoadsOf(thr[t].inst, thr[t].instr_bo.key)) = 1

\* C6: once the constructor of an instance built with load_xrt = true has
\* returned, the registry of that instance has the key of every supported
\* shape registered.
C6_EveryInstanceRegistered ==
    \A i \in Inst :
        (obj[i].state = "ready" /\ obj[i].load_xrt)
        => SupportedKeys \subseteq obj[i].instr_reg_.registered

\* C7: once the buffers of an instance are allocated, input-A and output have
\* 2048 * 4096 * 2 bytes and input-B has 4096 * 2 bytes, whatever shapes the
\* execute calls on the instance used.
C7_BufferSizesAreTheMaximum ==
    \A i \in Inst :
        obj[i].a_bo_.id # 0 =>
            /\ obj[i].a_bo_.size = 2048 * 4096 * 2
            /\ obj[i].c_bo_.size = 2048 * 4096 * 2
            /\ obj[i].b_bo_.size = 4096 * 2

\* a call with the smallest supported shape has staged into the buffers
C7_Witness ==
    \E i \in Inst :
        /\ obj[i].a_bo_.id # 0
        /\ obj[i].a_bo_.n = 128 * 4096 * 2
        /\ obj[i].b_bo_.n = 4096 * 2

\* C8: an allocated staging buffer of an instance is never replaced: every
\* step leaves the three regions of the instance the regions they were.
C8_BuffersNeverReplaced ==
    [][\A i \in Inst :
          obj[i].a_bo_.id # 0 =>
              /\ obj'[i].a_bo_.id = obj[i].a_bo_.id
              /\ obj'[i].b_bo_.id = obj[i].b_bo_.id
              /\ obj'[i].c_bo_.id = obj[i].c_bo_.id]_vars

\* C9: the bytes copied into a staging buffer by an execute call are at most
\* the allocated size of that buffer.
C9_CopiesFitTheBuffers ==
    \A t \in Thread :
        \A k \in EventsOf(t, {"copyA", "copyB"}) :
            thr[t].hist[k].n <= thr[t].hist[k].cap

\* C10: an execute call whose secondary operand's length differs from the
\* column count of its rank-2 primary operand has made no staging copy.
C10_WtsMismatchCopiesNothing ==
    \A t \in Thread :
        (/\ InExecute(t)
         /\ Len(thr[t].input[1].shape) = 2
         /\ thr[t].input[2].shape[1] # thr[t].input[1].shape[2])
        => EventsOf(t, {"copyA", "copyB"}) = {}

\* C11: the bytes copied from the output staging buffer into the caller's
\* output tensor are the byte count of the output tensor's own shape.
C11_OutputCopyIsOutputSize ==
    \A t \in Thread :
        \A k \in EventsOf(t, {"copyC"}) :
            thr[t].hist[k].n = ShapeBytes(obj[thr[t].inst], thr[t].output[1])

\* the stages of one call, in the order of the pipeline
StageOrder ==
    <<"validate", "copyA", "syncA", "copyB", "syncB", "resolve", "launch", "wait",
      "syncC", "copyC", "log">>

\* the kinds of the stages the call of thread t has done, in the order done
Kinds(t) == [k \in 1..Len(thr[t].hist) |-> thr[t].hist[k].ev]

\* C12: the stages a call has done are an initial part of the pipeline order
\* (validate, copy A, sync A, copy B, sync B, resolve, launch, wait, sync
\* output, copy output, metrics line), so each was done once and after the one
\* before it; a call that returned successfully has done all eleven.
C12_StagesInOrderOnce ==
    \A t \in Thread :
        /\ Len(thr[t].hist) <= Len(StageOrder)
        /\ Kinds(t) = SubSeq(StageOrder, 1, Len(thr[t].hist))
        /\ (thr[t].op = "execute" /\ thr[t].err = "ok") =>
               Len(thr[t].hist) = Len(StageOrder)

\* an execute call returned successfully
C12_Witness ==
    \E t \in Thread :
        /\ thr[t].op = "execute"
        /\ thr[t].err = "ok"
        /\ Kinds(t) = StageOrder

\* the call of thread t has staged input A and has not ended: it is in one of
\* the stages 2 to 5
Staged(t) ==
    /\ thr[t].op = "execute"
    /\ thr[t].pc \in {"x_copyB", "x_resolve", "x_load", "x_launch", "x_wait", "x_fetch"}

\* C13: two execute calls by different threads that are both in the stages 2
\* to 5 are calls on different instances.
C13_OneCallInFlightPerInstance ==
    \A t, u \in Thread :
        (t # u /\ Staged(t) /\ Staged(u)) => thr[t].inst # thr[u].inst

\* the instance state a call can touch: timing record, invocation counter,
\* recorded byte sizes, the three staging buffers and their contents
InstanceState(o) ==
    <<o.a_copy_time_, o.a_sync_time_, o.b_copy_time_, o.b_sync_time_,
      o.c_copy_time_, o.c_sync_time_, o.run_aie_time_, o.num_run_aie_,
      o.operand_size_in_bytes_, o.wts_size_in_bytes_, o.a_bo_, o.b_bo_, o.c_bo_>>

\* C14: an execute call that fails with a Shape error leaves the timing
\* record, the invocation counter, the recorded byte sizes and the staging
\* buffers of the instance as they were just before the call.
C14_ShapeErrorChangesNothing ==
    [][\A t \in Thread : \A i \in Inst : \A a \in ExecArgs(t) :
          ExecShapeError(t, i, a) =>
              InstanceState(obj'[i]) = InstanceState(obj[i])]_vars

\* C15: the invocation counter of an instance never decreases.
C15_InvocationCountNeverDecreases ==
    [][\A i \in Inst : obj'[i].num_run_aie_ >= obj[i].num_run_aie_]_vars

\* C16: an execute call that failed for an absent instruction key has
\* copied and synchronized both inputs and done nothing after that: both
\* staging buffers hold the bytes of the call's inputs, no kernel was launched,
\* the output tensor is unwritten and no metrics line was emitted.
C16_LookupFailsAfterStaging ==
    \A t \in Thread :
        (thr[t].op = "execute" /\ thr[t].err = "Lookup") =>
            /\ thr[t].pc = "idle"
            /\ Kinds(t) = <<"validate", "copyA", "syncA", "copyB", "syncB">>
            /\ Self(t).a_bo_.src = thr[t].input[1].data
            /\ Self(t).a_bo_.n = ShapeBytes(Self(t), thr[t].input[1])
            /\ Self(t).b_bo_.src = thr[t].input[2].data
            /\ Self(t).b_bo_.n = ShapeBytes(Self(t), thr[t].input[2])
            /\ \A k \in 1..Len(thr[t].output) : thr[t].output[k].data = 0

\* a call was refused for its key with both inputs staged
C16_Witness ==
    \E t \in Thread :
        /\ thr[t].op = "execute"
        /\ thr[t].err = "Lookup"
        /\ Self(t).a_bo_.n > 0
        /\ Self(t).b_bo_.n > 0

\* C17: an execute call that returned successfully has run every stage, has
\* written the result of its own input to the output tensor and has left the
\* per-call counters at the values of a single run, whether or not a call on
\* the instance was refused before for its shape or its instruction key.
C17_SuccessIsTheSameAfterAFailure ==
    \A t \in Thread :
        (thr[t].op = "execute" /\ thr[t].err = "ok") =>
            /\ Kinds(t) = StageOrder
            /\ thr[t].output[1].data = thr[t].input[1].data
            /\ Self(t).operand_size_in_bytes_ = ShapeBytes(Self(t), thr[t].input[1])
            /\ Self(t).wts_size_in_bytes_ = ShapeBytes(Self(t), thr[t].input[2])
            /\ Self(t).num_run_aie_ = 1
            /\ Self(t).run_aie_time_ = 1
            /\ <<Self(t).a_copy_time_, Self(t).a_sync_time_, Self(t).b_copy_time_,
                  Self(t).b_sync_time_, Self(t).c_copy_time_, Self(t).c_sync_time_>>
                   = <<1, 1, 1, 1, 1, 1>>

\* a call succeeded on an instance on which a call had failed for its key
C17_Witness ==
    \E t \in Thread :
        /\ thr[t].op = "execute"
        /\ thr[t].err = "ok"
        /\ Self(t).failed = "Lookup"

\* a call succeeded on an instance on which a call had failed for its shape
C17_WitnessShape ==
    \E t \in Thread :
        /\ thr[t].op = "execute"
        /\ thr[t].err = "ok"
        /\ Self(t).failed = "Shape"

\* C18: a call launches the kernel at most once; a call that ended with a
\* failure of the device layer has ended for its caller with that error, has
\* copied nothing into the output tensor and has emitted no metrics line.
C18_HardwareFailureIsFinal ==
    \A t \in Thread :
        /\ Cardinality(EventsOf(t, {"launch"})) <= 1
        /\ thr[t].err = "Hardware" =>
               /\ thr[t].pc = "idle"
               /\ EventsOf(t, {"copyC", "log"}) = {}
               /\ \A k \in 1..Len(thr[t].output) : thr[t].output[k].data = 0

\* a call ended with a device failure after its launch
C18_Witness ==
    \E t \in Thread :
        /\ thr[t].err = "Hardware"
        /\ Cardinality(EventsOf(t, {"launch"})) = 1

\* C19: the step in which a construction is refused for its dtype tag changes
\* nothing but the record of the call: no device acquisition, no registration,
\* no increment of the instance counter, no header line, no instance.
C19_BadDtypeFailsFirst ==
    [][\A t \in Thread : \A i \in Inst : \A d \in Dtypes : \A l \in BOOLEAN :
          CtorBadDtype(t, i, d, l) =>
              /\ thr'[t].err = "Construction"
              /\ thr'[t].pc = "idle"
              /\ UNCHANGED <<rms_norm_count, instr_reg_flag_, logger_flag_, ctx_map,
                             acquisitions, loads, log, obj>>]_vars

\* a construction was refused after another instance had been constructed
C19_Witness ==
    \E t \in Thread :
        /\ thr[t].op = "ctor"
        /\ thr[t].err = "Construction"
        /\ rms_norm_count > 0
        /\ acquisitions > 0

\* the descriptors of the probe agree: rank-2 operand (M, K), output of the
\* same shape, secondary operand of length K
ReqMatching ==
    /\ Len(probe.input[1].shape) = 2
    /\ probe.output[1].shape = probe.input[1].shape
    /\ probe.input[2].shape = <<probe.input[1].shape[2]>>

\* C20: for agreeing descriptors get_buffer_reqs returns three entries, in
\* this order: input 0 with M*K*2 bytes, input 1 with K*2 bytes, output with
\* M*K*2 bytes; the call changes nothing of the instance or of the process,
\* and the descriptors carry no data.
C20_BufferReqsOfMatchingShapes ==
    [][(/\ probe.fn = "get_buffer_reqs"
        /\ ~probe.done
        /\ probe'.done
        /\ ReqMatching)
       => /\ probe'.result.err = "none"
          /\ probe'.result.arg_map =
                 <<[arg_type |-> "INPUT", xrt_arg_idx |-> 0, onnx_arg_idx |-> 0, offset |-> 0,
                    size |-> probe.input[1].shape[1] * probe.input[1].shape[2] * 2],
                   [arg_type |-> "INPUT", xrt_arg_idx |-> 1, onnx_arg_idx |-> 1, offset |-> 0,
                    size |-> probe.input[1].shape[2] * 2],
                   [arg_type |-> "OUTPUT", xrt_arg_idx |-> 2, onnx_arg_idx |-> 2, offset |-> 0,
                    size |-> probe.input[1].shape[1] * probe.input[1].shape[2] * 2]>>
          /\ \A k \in 1..2 : probe.input[k].data = 0
          /\ probe.output[1].data = 0
          /\ UNCHANGED <<rms_norm_count, instr_reg_flag_, logger_flag_, ctx_map,
                         acquisitions, loads, log, obj, thr, ncalls, artifacts>>]_vars

\* the requirements of the shape (128, 4096) were returned
C20_Witness ==
    /\ probe.fn = "get_buffer_reqs"
    /\ probe.done
    /\ probe.input[1].shape = <<128, 4096>>
    /\ probe.result.err = "none"
    /\ Len(probe.result.arg_map) = 3
    /\ probe.result.arg_map[2].size = 8192

\* the descriptors of the probe disagree: the output shape is not the operand
\* shape, or the secondary operand's length is not the operand's column count
ReqMismatch ==
    \/ probe.output[1].shape # probe.input[1].shape
    \/ /\ Len(probe.input[1].shape) = 2
       /\ IF Len(probe.input[2].shape) = 0 THEN TRUE
          ELSE probe.input[2].shape[1] # probe.input[1].shape[2]

\* C21: for disagreeing descriptors get_buffer_reqs ends in an error and
\* returns no size list: no entry, hence no byte size, was computed.
C21_BufferReqsRefusesMismatch ==
    (/\ probe.fn = "get_buffer_reqs"
     /\ probe.done
     /\ ReqMismatch)
    => /\ probe.result.err # "none"
       /\ probe.result.arg_map = <<>>

\* rank-2 operand and output agree, the secondary operand's length is the row
\* count instead of the column count: refused for the mismatch
C21_Witness ==
    /\ probe.fn = "get_buffer_reqs"
    /\ probe.done
    /\ probe.input[1].shape = <<128, 4096>>
    /\ probe.output[1].shape = <<128, 4096>>
    /\ probe.input[2].shape = <<128>>
    /\ probe.result.err = "Shape"

\* the positions of the lines of one kind in a log
LinesOf(l, kind) == {k \in 1..Len(l) : l[k].line = kind}

\* C22: the log holds at most one header line, exactly one as soon as one
\* constructor has returned, and every data line comes after the header.
C22_HeaderOnceBeforeData ==
    /\ Cardinality(LinesOf(log, "header")) <= 1
    /\ (\E i \in Inst : obj[i].state = "ready") =>
           Cardinality(LinesOf(log, "header")) = 1
    /\ \A k \in LinesOf(log, "data") : \E h \in LinesOf(log, "header") : h < k

\* two instances were constructed and a data line was emitted
C22_Witness ==
    /\ \E i, j \in Inst : i # j /\ obj[i].state = "ready" /\ obj[j].state = "ready"
    /\ LinesOf(log, "data") # {}

\* the positions in execute after the shape test
ExecPcs == {"x_copyA", "x_copyB", "x_resolve", "x_load", "x_launch", "x_wait", "x_fetch"}

\* the step is the successful return of the execute call of thread t
SuccessfulReturn(t) ==
    /\ thr[t].pc = "x_fetch"
    /\ thr'[t].pc = "idle"
    /\ thr'[t].err = "ok"

\* the step ends the execute call of thread t with an error
FailedEnd(t) ==
    \/ /\ thr[t].pc \in ExecPcs
       /\ thr'[t].pc = "idle"
       /\ thr'[t].err # "ok"
    \/ /\ thr[t].pc = "idle"
       /\ thr'[t].pc = "idle"
       /\ thr'[t].op = "execute"
       /\ thr'[t] # thr[t]

\* C23: the step in which an execute call returns successfully appends one
\* data line, as the last thing the call does; the step in which an execute
\* call fails appends nothing; no other step adds a data line. Hence the
\* number of data lines is the number of successfully completed calls.
C23_OneDataLinePerSuccess ==
    [][/\ \A t \in Thread :
             SuccessfulReturn(t) =>
                 /\ log' = Append(log, [line |-> "data",
                                        id |-> obj[thr[t].inst].rms_norm_id_])
                 /\ thr'[t].hist[Len(thr'[t].hist)].ev = "log"
       /\ \A t \in Thread : FailedEnd(t) => log' = log
       /\ (LinesOf(log', "data") # LinesOf(log, "data")) =>
              \E t \in Thread : SuccessfulReturn(t)]_vars

\* one call has returned successfully, another has failed, one data line
C23_Witness ==
    /\ \E t, u \in Thread :
          /\ thr[t].op = "execute" /\ thr[t].err = "ok"
          /\ thr[u].op = "execute" /\ thr[u].pc = "idle"
          /\ thr[u].err \in {"Shape", "Lookup", "Hardware", "OutOfRange"}
    /\ Cardinality(LinesOf(log, "data")) = 1

\* C24: once the constructor of an instance has returned, the instance holds
\* a device context and its three staging buffers are allocated at the size
\* of the largest supported shape.
C24_ConstructedMeansAllocated ==
    \A i \in Inst :
        obj[i].state = "ready" =>
            /\ obj[i].xrt_ctx_ # NoCtx
            /\ obj[i].a_bo_.id # 0 /\ obj[i].a_bo_.size = 2048 * 4096 * 2
            /\ obj[i].b_bo_.id # 0 /\ obj[i].b_bo_.size = 4096 * 2
            /\ obj[i].c_bo_.id # 0 /\ obj[i].c_bo_.size = 2048 * 4096 * 2

\* C26: an execute call given fewer than two inputs or no output tensor has
\* written no staging buffer and launched no kernel.
C26_MissingTensorFailsFirst ==
    \A t \in Thread :
        (/\ thr[t].op = "execute"
         /\ (Len(thr[t].input) < 2 \/ Len(thr[t].output) < 1))
        => EventsOf(t, {"copyA", "copyB", "launch"}) = {}

\* C27: the constructed instances have pairwise different ids, and when no
\* constructor is running the instance counter is the number of instances
\* constructed.
C27_IdsUniqueCounterExact ==
    /\ \A i, j \in Inst :
          (i # j /\ obj[i].state = "ready" /\ obj[j].state = "ready")
          => obj[i].rms_norm_id_ # obj[j].rms_norm_id_
    /\ (\A i \in Inst : obj[i].state # "constructing") =>
           rms_norm_count = Cardinality({i \in Inst : obj[i].state = "ready"})

\* C25: two shapes have the same key exactly when they are the same (rows,
\* cols) pair, and on an instance whose registry was set up the key execute
\* computes for a shape is a registered key exactly when the shape is one of
\* the supported shapes.
C25_KeyIdentifiesShape ==
    (probe.fn = "get_instr_key" /\ probe.done) =>
        /\ (probe.key_a = probe.key_b) <=> (probe.a = probe.b)
        /\ obj[1].load_xrt =>
               ((probe.key_a \in obj[1].instr_reg_.registered) <=> (probe.a \in SupportedSet))

\* the keys of two supported shapes, on an instance whose registry was set up
C25_Witness ==
    /\ probe.fn = "get_instr_key"
    /\ probe.done
    /\ probe.a = <<128, 4096>>
    /\ probe.b = <<2048, 4096>>
    /\ probe.key_a = "mladfrmsnorm_rmsnorm_a16_128_4096"
    /\ probe.key_a \in obj[1].instr_reg_.registered
    /\ probe.key_b \in obj[1].instr_reg_.registered

\* the threads that are running the registry setup, and the instances whose
\* registry a setup has filled
InSetup == {t \in Thread : thr[t].pc = "c_setup"}
SetUp == {i \in Inst : obj[i].instr_reg_.registered # {}}

\* C28: the registry setup runs at most once in the process: none has begun
\* while the guard is untouched, one is running while the guard is taken, one
\* has finished once the guard is set. A constructor with load_xrt = true
\* that is past the guard, or has returned, finds the setup finished. An
\* instance built with load_xrt = false has no registry set up and holds no
\* context, and the guard is touched only if a load_xrt = true instance exists.
C28_SetupOnceAndAwaited ==
    /\ Cardinality(InSetup) + Cardinality(SetUp) <= 1
    /\ instr_reg_flag_ = "idle" => (InSetup = {} /\ SetUp = {})
    /\ instr_reg_flag_ = "running" => Cardinality(InSetup) = 1
    /\ instr_reg_flag_ = "done" => Cardinality(SetUp) = 1
    /\ \A t \in Thread :
          (thr[t].pc = "c_finish" /\ Self(t).load_xrt) => instr_reg_flag_ = "done"
    /\ \A i \in Inst :
          /\ (obj[i].state = "ready" /\ obj[i].load_xrt) => instr_reg_flag_ = "done"
          /\ (obj[i].state # "none" /\ ~obj[i].load_xrt) =>
                 (i \notin SetUp /\ obj[i].xrt_ctx_ = NoCtx)
    /\ instr_reg_flag_ # "idle" =>
           \E i \in Inst : obj[i].state # "none" /\ obj[i].load_xrt

\* a constructor has arrived at the guard while another runs the setup
C28_Witness ==
    \E t, u \in Thread :
        /\ thr[t].pc = "c_setup"
        /\ thr[u].pc = "c_once"
        /\ instr_reg_flag_ = "running"

\* an instance built with load_xrt = false exists and the guard is untouched
C28_WitnessNoXrt ==
    /\ \E i \in Inst : obj[i].state = "ready" /\ ~obj[i].load_xrt
    /\ instr_reg_flag_ = "idle"


====
